---- MODULE Spec2Model ----
(***************************************************************************)
(* Shield permission resolver of be_seafood (core/permissions/shield.py),  *)
(* the three permission tables it reads (apps/users/models/permission.py)  *)
(* and the seed_permissions management command that rewrites them.         *)
(*                                                                         *)
(* The tables are sets of rows. A foreign key is the id of the row it      *)
(* points to; ids come from one auto-increment counter. Every resolver     *)
(* instance (one per server process) has its own _role_permission_cache;   *)
(* the tables are shared by all instances.                                 *)
(*                                                                         *)
(* Also the permission gates wrapping route handlers                       *)
(* (core/permissions/decorators.py) and the order endpoints that change an *)
(* order: update_order and update_order_status (apps/orders/routers/       *)
(* router_a.py) over OrderRepository.update_order. The transition table    *)
(* and the order service follow section 4.5 of the design.                 *)
(***************************************************************************)
EXTENDS Integers, Sequences, FiniteSets, TLC

VARIABLES
    perms,      \* Permission table: set of [id, name]
    rolePerms,  \* RolePermission table: set of [role, perm], perm a Permission id
    userPerms,  \* UserPermission table: set of [user, perm, granted]
    nextId,     \* next value of the Permission id sequence
    cache,      \* cache[i]: _role_permission_cache of resolver i, a function key -> BOOLEAN
    last,       \* the operation that completed last, with its arguments and result
    call,       \* the can() call in flight (SpecConc), or Idle
    order,      \* the Order row: status, stage timestamps (0 is NULL), a detail field
    clock,      \* timezone.now(), advancing with every applied transition
    reqs,       \* reqs[q]: the status-change request q, where it is and how it ended
    images,     \* OrderImage table: set of [id, order, created_at, file]
    files,      \* the image files on disk: set of image ids
    nextImage,  \* next value of the OrderImage id sequence
    resp        \* what the last image operation was given and answered

\* the state of the orders app
orderVars == <<order, clock, reqs>>

\* the state of the order images
imageVars == <<images, files, nextImage, resp>>

vars == <<perms, rolePerms, userPerms, nextId, cache, last, call, order, clock, reqs,
          images, files, nextImage, resp>>

-----------------------------------------------------------------------------
(* Bounds of the exploration *)

\* highest Permission id the id sequence may hand out
MaxId == 3
\* most rows the UserPermission table holds
MaxOverrides == 1
\* latest reading of the clock
MaxClock == 4
\* most permission names handed to has_any, has_all and the gates
MaxNames == 2
\* most images ever uploaded
MaxImages == 2
\* the latest day an image is uploaded on; the commands run the day after
MaxDay == 2

-----------------------------------------------------------------------------
(* Roles, users, permission names *)

ADMIN == "admin"
MANAGER == "manager"
SALE == "sale"
WEIGHING == "weighing"
KITCHEN == "kitchen"

Roles == {ADMIN, MANAGER, SALE, WEIGHING, KITCHEN}

\* the bypass written for the admin role alone
UniversalRoles_AdminOnly == {ADMIN}

\* user.role in [UserRole.ADMIN.value, UserRole.MANAGER.value]
UniversalRoles == {ADMIN, MANAGER}

\* The users the operations are called with: both universal roles and an
\* ordinary one.
Users == {"u_admin", "u_manager", "u_sale"}

RoleOf(u) ==
    CASE u = "u_admin" -> ADMIN
      [] u = "u_manager" -> MANAGER
      [] u = "u_sale" -> SALE
      [] u = "u_sale2" -> SALE

\* permissions_data of the seed command, restricted to its first entry.
PermissionsData == <<"order:create">>

SeedNames == {PermissionsData[k] : k \in 1..Len(PermissionsData)}

\* A name the seed never creates (router_shield_example.py asks for it).
ExtraNames == {"order:hard_delete"}

Names == SeedNames \cup ExtraNames

\* role_permissions of the seed command, restricted to PermissionsData.
RolePermissionsSeed(role) ==
    CASE role = ADMIN -> SeedNames
      [] role = MANAGER -> {"order:create"}
      [] role = SALE -> {"order:create"}
      [] role = WEIGHING -> {}
      [] role = KITCHEN -> {}

\* The resolver instances: one module-level Shield() per server process.
Instances == {"r1", "r2"}

\* The roles whose rows the resolver reads for these users (the universal
\* roles bypass the map).
OrdinaryRoles == {RoleOf(u) : u \in Users} \ UniversalRoles

-----------------------------------------------------------------------------
(* Optional[bool] *)

None == {}
Some(b) == {b}
Value(opt) == CHOOSE b \in opt : TRUE

-----------------------------------------------------------------------------
(* Queries on the tables *)

\* Permission.objects.get(name=...): the rows with that name (none: DoesNotExist)
PermissionGet(name) == {p \in perms : p.name = name}

CatalogNames == {p.name : p \in perms}

\* the override rows of (user, name)
OverrideRows(user, name) ==
    {up \in userPerms : up.user = user /\ \E p \in perms : p.id = up.perm /\ p.name = name}

\* cache_key = f"{role}:{permission_name}"
CacheKey(role, name) == role \o ":" \o name

EmptyCache == [k \in {} |-> FALSE]

\* No can() call is in progress. A call in progress is at pc, holds the
\* Permission id it read (perm) and the role-map answer it read (has). The
\* other fields observe it: epoch counts the reseeds committed since it began,
\* reads is the set of epochs in which it read a table, atomic the answers an
\* uninterrupted can() gives at its start and right after each of those
\* reseeds, others whether anything else changed a table or the cache meanwhile,
\* seq what has happened since the call read the role map: nothing ("none"),
\* a change of the role map ("mutated"), that and then a clear_cache ("cleared").
Idle == [pc |-> "idle", inst |-> "r1", user |-> "u_admin", name |-> "order:create",
         perm |-> 0, has |-> FALSE, ret |-> FALSE,
         epoch |-> 0, reads |-> {}, atomic |-> {}, others |-> FALSE, seq |-> "none"]

InProgress == call.pc \notin {"idle", "returned"}

\* What a permission gate did with a request: whether the gate was given an
\* error_message (custom), whether the wrapped handler ran (invoked), the
\* HTTP code, and the permission names its denial message holds (carried)
NoGate == [custom |-> FALSE, invoked |-> FALSE, code |-> 0, carried |-> {}]

\* resource_id=None, the default of can() and cannot()
NoResource == "none"

\* The values callers pass as resource_id
ResourceIds == {NoResource, "o1", "o2"}

\* prev: the override (user, name) had when a grant or revoke began;
\* rid: the resource_id a can() or cannot() was called with
NoOp == [op |-> "none", inst |-> "r1", user |-> "u_admin", name |-> "order:create",
         ret |-> FALSE, list |-> {}, prev |-> {}, gate |-> NoGate, rid |-> NoResource]

Done(op, i, u, n, r) ==
    [op |-> op, inst |-> i, user |-> u, name |-> n, ret |-> r, list |-> {}, prev |-> {},
     gate |-> NoGate, rid |-> NoResource]

\* an operation of the administration, which is not a resolver call
AdminDone(op) == [NoOp EXCEPT !.op = op]

-----------------------------------------------------------------------------
(* Orders: statuses, the transition table, the Order row *)

CREATED == "created"
WEIGHING_STAGE == "weighing"
KITCHEN_STAGE == "kitchen"
COMPLETED == "completed"
CANCELLED == "cancelled"

\* OrderStatus, the stages between creation and the two ends of the lifecycle
OrderStatus == {CREATED, WEIGHING_STAGE, KITCHEN_STAGE, COMPLETED, CANCELLED}

\* completed and cancelled have no outgoing edge
TerminalStatuses == {COMPLETED, CANCELLED}

\* The static transition table: edges (from, to) with the roles allowed to
\* trigger them. weighing -> kitchen is the edge the design gives; kitchen ->
\* weighing is the re-entry its timestamp rule speaks of.
Transitions ==
    {[from |-> CREATED, to |-> WEIGHING_STAGE, roles |-> {SALE, ADMIN, MANAGER}],
     [from |-> WEIGHING_STAGE, to |-> KITCHEN_STAGE, roles |-> {WEIGHING, ADMIN, MANAGER}],
     [from |-> KITCHEN_STAGE, to |-> WEIGHING_STAGE, roles |-> {KITCHEN, ADMIN, MANAGER}],
     [from |-> KITCHEN_STAGE, to |-> COMPLETED, roles |-> {KITCHEN, ADMIN, MANAGER}],
     [from |-> CREATED, to |-> CANCELLED, roles |-> {ADMIN, MANAGER}],
     [from |-> WEIGHING_STAGE, to |-> CANCELLED, roles |-> {ADMIN, MANAGER}],
     [from |-> KITCHEN_STAGE, to |-> CANCELLED, roles |-> {ADMIN, MANAGER}]}

\* the edges (from, to) of the table
Edges(from, to) == {e \in Transitions : e.from = from /\ e.to = to}

\* UserRole.can_transition(role, from_status, to_status)
CanTransition(role, from, to) ==
    \E e \in Edges(from, to) : role \in e.roles

\* the values of the detail field the general update writes
Notes == {"n0", "n1"}

\* Order as created: no stage entered, received_time and kitchen_time NULL
NewOrder == [status |-> CREATED, received_time |-> 0, kitchen_time |-> 0, notes |-> "n0"]

\* the status-change requests that may be in progress together
Requests == {"q1", "q2"}

\* No request in slot q. A request that passed the router's check is at pc
\* "checked" with the status the router read (from); one that was answered is
\* at "done" with the HTTP code, the kind of denial, and the status the order
\* had when the service was called (was). race observes two requests that read
\* the same status and ask for different targets: "first" on the one applied
\* first, "second" on the other.
IdleRequest == [pc |-> "idle", role |-> ADMIN, to |-> CREATED, from |-> CREATED,
                was |-> CREATED, code |-> 0, kind |-> "none", race |-> "none"]

-----------------------------------------------------------------------------
(* Order images *)

\* the orders images are uploaded to
Orders == {"o1", "o2"}

\* the days images are created on
Days == 0..MaxDay

\* timezone.now() of the commands and requests that delete
Today == MaxDay + 1

\* No image operation yet. An answer holds the operation, its arguments
\* (days and dry_run of the command; order and image of the request), the
\* images it looked at, whether the image was found, and the HTTP code.
NoResponse == [op |-> "none", days |-> 0, dry_run |-> FALSE, order |-> "o1", image |-> 0,
               considered |-> {}, found |-> FALSE, code |-> 0]

-----------------------------------------------------------------------------
(* Shield *)

\* Shield.__init__
Init ==
    /\ perms = {}
    /\ rolePerms = {}
    /\ userPerms = {}
    /\ nextId = 1
    /\ cache = [i \in Instances |-> EmptyCache]
    /\ last = NoOp
    /\ call = Idle
    /\ order = NewOrder
    /\ clock = 1
    /\ reqs = [q \in Requests |-> IdleRequest]
    /\ images = {}
    /\ files = {}
    /\ nextImage = 1
    /\ resp = NoResponse

\* _check_user_permission filtering the overrides by permission alone
CheckUserPermission_AnyUser(user, name) ==
    IF PermissionGet(name) = {}
    THEN None
    ELSE LET permission == CHOOSE p \in PermissionGet(name) : TRUE
             rows == {up \in userPerms : up.perm = permission.id}
         IN IF rows # {} THEN Some((CHOOSE up \in rows : TRUE).granted) ELSE None

\* _check_user_permission returning the override only when it is a grant
CheckUserPermission_GrantsOnly(user, name) ==
    IF PermissionGet(name) = {}
    THEN None
    ELSE LET permission == CHOOSE p \in PermissionGet(name) : TRUE
             rows == {up \in userPerms : up.user = user /\ up.perm = permission.id}
         IN IF rows # {} /\ (CHOOSE up \in rows : TRUE).granted THEN Some(TRUE) ELSE None

\* Shield._check_user_permission
CheckUserPermission(user, name) ==
    IF PermissionGet(name) = {}
    THEN None
    ELSE LET permission == CHOOSE p \in PermissionGet(name) : TRUE
             rows == {up \in userPerms : up.user = user /\ up.perm = permission.id}
         IN IF rows # {} THEN Some((CHOOSE up \in rows : TRUE).granted) ELSE None

\* Shield._check_role_permission: the value returned
CheckRolePermission(i, role, name) ==
    IF CacheKey(role, name) \in DOMAIN cache[i]
    THEN cache[i][CacheKey(role, name)]
    ELSE IF PermissionGet(name) = {}
         THEN FALSE
         ELSE LET permission == CHOOSE p \in PermissionGet(name) : TRUE
              IN [role |-> role, perm |-> permission.id] \in rolePerms

\* _check_role_permission caching False for a name the catalog does not hold
CheckRolePermissionCache_CacheMissing(i, role, name) ==
    IF CacheKey(role, name) \in DOMAIN cache[i]
    THEN cache[i]
    ELSE [k \in DOMAIN cache[i] \cup {CacheKey(role, name)} |->
            IF k = CacheKey(role, name)
            THEN CheckRolePermission(i, role, name)
            ELSE cache[i][k]]

\* Shield._check_role_permission: the cache it leaves
CheckRolePermissionCache(i, role, name) ==
    IF CacheKey(role, name) \in DOMAIN cache[i] \/ PermissionGet(name) = {}
    THEN cache[i]
    ELSE [k \in DOMAIN cache[i] \cup {CacheKey(role, name)} |->
            IF k = CacheKey(role, name)
            THEN CheckRolePermission(i, role, name)
            ELSE cache[i][k]]

\* can() asking the role before the override
CanResult_RoleFirst(i, user, name) ==
    IF RoleOf(user) \in UniversalRoles
    THEN TRUE
    ELSE IF CheckRolePermission(i, RoleOf(user), name)
         THEN TRUE
         ELSE IF CheckUserPermission(user, name) # None
              THEN Value(CheckUserPermission(user, name))
              ELSE FALSE

\* can() answering from the role cache whenever the key is cached
CanResult_CacheFirst(i, user, name) ==
    IF RoleOf(user) \in UniversalRoles
    THEN TRUE
    ELSE IF CacheKey(RoleOf(user), name) \in DOMAIN cache[i]
         THEN cache[i][CacheKey(RoleOf(user), name)]
         ELSE IF CheckUserPermission(user, name) # None
              THEN Value(CheckUserPermission(user, name))
              ELSE CheckRolePermission(i, RoleOf(user), name)

\* Shield.can: the value returned
CanResult(i, user, name) ==
    IF RoleOf(user) \in UniversalRoles
    THEN TRUE
    ELSE IF CheckUserPermission(user, name) # None
         THEN Value(CheckUserPermission(user, name))
         ELSE CheckRolePermission(i, RoleOf(user), name)

\* Shield.can: the cache it leaves
CanCache(i, user, name) ==
    IF RoleOf(user) \in UniversalRoles \/ CheckUserPermission(user, name) # None
    THEN cache[i]
    ELSE CheckRolePermissionCache(i, RoleOf(user), name)

\* Shield.get_user_permissions
GetUserPermissionsResult(user) ==
    IF RoleOf(user) \in UniversalRoles
    THEN CatalogNames
    ELSE LET role_perms == {p.name : p \in {q \in perms :
                                [role |-> RoleOf(user), perm |-> q.id] \in rolePerms}}
             granted == {p.name : p \in {q \in perms :
                                [user |-> user, perm |-> q.id, granted |-> TRUE] \in userPerms}}
             revoked == {p.name : p \in {q \in perms :
                                [user |-> user, perm |-> q.id, granted |-> FALSE] \in userPerms}}
         IN (role_perms \cup granted) \ revoked

\* What a can() call in progress records of an operation, other than a reseed,
\* that completes meanwhile
Bystander == IF InProgress THEN [call EXCEPT !.others = TRUE] ELSE call

\* What a call that has read the role map and not yet written the cache
\* records of a change of the role map
Mutated(c) == IF c.pc = "cache_store" THEN [c EXCEPT !.seq = "mutated"] ELSE c

\* What such a call records of a clear_cache that follows the change
Cleared(c) == IF c.seq = "mutated" /\ c.pc = "cache_store"
              THEN [c EXCEPT !.seq = "cleared"] ELSE c

\* get_or_create in place of update_or_create: an existing row keeps its value
UpdateOrCreate_KeepExisting(user, permId, g) ==
    IF \E up \in userPerms : up.user = user /\ up.perm = permId
    THEN userPerms
    ELSE userPerms \cup {[user |-> user, perm |-> permId, granted |-> g]}

\* UserPermission.objects.update_or_create(user, permission, defaults={'granted': g})
UpdateOrCreate(user, permId, g) ==
    {up \in userPerms : ~(up.user = user /\ up.perm = permId)}
        \cup {[user |-> user, perm |-> permId, granted |-> g]}

\* grant and revoke answering True for a name the catalog does not hold
SetOverride_AlwaysTrue(op, i, user, name, g) ==
    /\ IF PermissionGet(name) = {}
       THEN /\ userPerms' = userPerms
            /\ last' = Done(op, i, user, name, TRUE)
       ELSE LET permission == CHOOSE p \in PermissionGet(name) : TRUE
            IN /\ Cardinality(UpdateOrCreate(user, permission.id, g)) <= MaxOverrides
               /\ userPerms' = UpdateOrCreate(user, permission.id, g)
               /\ last' = [Done(op, i, user, name, TRUE) EXCEPT
                                !.prev = CheckUserPermission(user, name)]
    /\ call' = Bystander
    /\ UNCHANGED <<imageVars, orderVars, perms, rolePerms, nextId, cache>>

\* Shield.grant and Shield.revoke differ in the value they write
SetOverride(op, i, user, name, g) ==
    /\ IF PermissionGet(name) = {}
       THEN /\ userPerms' = userPerms
            /\ last' = Done(op, i, user, name, FALSE)
       ELSE LET permission == CHOOSE p \in PermissionGet(name) : TRUE
            IN /\ Cardinality(UpdateOrCreate(user, permission.id, g)) <= MaxOverrides
               /\ userPerms' = UpdateOrCreate(user, permission.id, g)
               /\ last' = [Done(op, i, user, name, TRUE) EXCEPT
                                !.prev = CheckUserPermission(user, name)]
    /\ call' = Bystander
    /\ UNCHANGED <<imageVars, orderVars, perms, rolePerms, nextId, cache>>

\* Shield.can, called and returned without interruption
Can(i, user, name) ==
    /\ ~InProgress
    /\ cache' = [cache EXCEPT ![i] = CanCache(i, user, name)]
    /\ last' = Done("can", i, user, name, CanResult(i, user, name))
    /\ UNCHANGED <<imageVars, orderVars, perms, rolePerms, userPerms, nextId, call>>

\* Shield.get_user_permissions
GetUserPermissions(i, user) ==
    /\ last' = [Done("perms", i, user, NoOp.name, FALSE) EXCEPT
                    !.list = GetUserPermissionsResult(user)]
    /\ UNCHANGED <<imageVars, orderVars, perms, rolePerms, userPerms, nextId, cache, call>>

\* Shield.grant
Grant(i, user, name) == SetOverride("grant", i, user, name, TRUE)

\* revoke deleting the override row instead of writing granted=False
Revoke_DeleteRow(i, user, name) ==
    /\ userPerms' = userPerms \ OverrideRows(user, name)
    /\ last' = Done("revoke", i, user, name, PermissionGet(name) # {})
    /\ call' = Bystander
    /\ UNCHANGED <<imageVars, orderVars, perms, rolePerms, nextId, cache>>

\* Shield.revoke
Revoke(i, user, name) == SetOverride("revoke", i, user, name, FALSE)

\* Shield.clear_cache
ClearCache(i) ==
    /\ cache' = [cache EXCEPT ![i] = EmptyCache]
    /\ last' = [AdminDone("clear") EXCEPT !.inst = i]
    /\ call' = Cleared(Bystander)
    /\ UNCHANGED <<imageVars, orderVars, perms, rolePerms, userPerms, nextId>>

-----------------------------------------------------------------------------
(* has_any, has_all and the decorators: can() called name after name, each *)
(* call on the cache the call before it left                               *)

\* the argument lists *permission_names
NameLists == UNION {[1..k -> Names] : k \in 0..MaxNames}

Range(names) == {names[k] : k \in DOMAIN names}

\* Shield.can on a resolver whose cache is c: the value returned
CanIn(c, user, name) ==
    IF RoleOf(user) \in UniversalRoles
    THEN TRUE
    ELSE IF CheckUserPermission(user, name) # None
         THEN Value(CheckUserPermission(user, name))
         ELSE IF CacheKey(RoleOf(user), name) \in DOMAIN c
              THEN c[CacheKey(RoleOf(user), name)]
              ELSE IF PermissionGet(name) = {}
                   THEN FALSE
                   ELSE [role |-> RoleOf(user),
                         perm |-> (CHOOSE p \in PermissionGet(name) : TRUE).id] \in rolePerms

\* Shield.can on a resolver whose cache is c: the cache it leaves
CacheAfterCan(c, user, name) ==
    IF \/ RoleOf(user) \in UniversalRoles
       \/ CheckUserPermission(user, name) # None
       \/ CacheKey(RoleOf(user), name) \in DOMAIN c
       \/ PermissionGet(name) = {}
    THEN c
    ELSE [k \in DOMAIN c \cup {CacheKey(RoleOf(user), name)} |->
            IF k = CacheKey(RoleOf(user), name) THEN CanIn(c, user, name) ELSE c[k]]

\* any(self.can(user, perm) for perm in permission_names): stops at the first
\* true
RECURSIVE HasAnyIn(_, _, _)
HasAnyIn(c, user, names) ==
    IF names = <<>>
    THEN [ret |-> FALSE, cache |-> c]
    ELSE IF CanIn(c, user, Head(names))
         THEN [ret |-> TRUE, cache |-> CacheAfterCan(c, user, Head(names))]
         ELSE HasAnyIn(CacheAfterCan(c, user, Head(names)), user, Tail(names))

\* all(self.can(user, perm) for perm in permission_names): stops at the first
\* false
RECURSIVE HasAllIn(_, _, _)
HasAllIn(c, user, names) ==
    IF names = <<>>
    THEN [ret |-> TRUE, cache |-> c]
    ELSE IF ~CanIn(c, user, Head(names))
         THEN [ret |-> FALSE, cache |-> CacheAfterCan(c, user, Head(names))]
         ELSE HasAllIn(CacheAfterCan(c, user, Head(names)), user, Tail(names))

\* has_any answering for the first name alone
HasAnyResult_FirstOnly(i, user, names) ==
    names # <<>> /\ CanIn(cache[i], user, Head(names))

\* Shield.has_any: the value returned
HasAnyResult(i, user, names) == HasAnyIn(cache[i], user, names).ret

\* Shield.has_all: the value returned
HasAllResult(i, user, names) == HasAllIn(cache[i], user, names).ret

\* Shield.has_any
HasAny(i, user, names) ==
    /\ cache' = [cache EXCEPT ![i] = HasAnyIn(cache[i], user, names).cache]
    /\ last' = [Done("has_any", i, user, NoOp.name, HasAnyResult(i, user, names))
                    EXCEPT !.list = Range(names)]
    /\ UNCHANGED <<imageVars, orderVars, perms, rolePerms, userPerms, nextId, call>>

\* Shield.has_all
HasAll(i, user, names) ==
    /\ cache' = [cache EXCEPT ![i] = HasAllIn(cache[i], user, names).cache]
    /\ last' = [Done("has_all", i, user, NoOp.name, HasAllResult(i, user, names))
                    EXCEPT !.list = Range(names)]
    /\ UNCHANGED <<imageVars, orderVars, perms, rolePerms, userPerms, nextId, call>>

\* can() answering instance-level checks (a resource_id is given) with false
CanResultFor_InstanceDenied(i, user, name, resource_id) ==
    IF resource_id = NoResource THEN CanResult(i, user, name) ELSE FALSE

\* Shield.can(user, permission_name, resource_id): the body never reads
\* resource_id
CanResultFor(i, user, name, resource_id) == CanResult(i, user, name)

\* Shield.cannot(user, permission_name, resource_id)
CannotResult(i, user, name, resource_id) == ~CanResultFor(i, user, name, resource_id)

\* Shield.can called with a resource_id
CanOn(i, user, name, resource_id) ==
    /\ cache' = [cache EXCEPT ![i] = CanCache(i, user, name)]
    /\ last' = [Done("can_on", i, user, name, CanResultFor(i, user, name, resource_id))
                    EXCEPT !.rid = resource_id]
    /\ UNCHANGED <<imageVars, orderVars, perms, rolePerms, userPerms, nextId, call>>

\* Shield.cannot: not self.can(user, permission_name, resource_id)
CannotOn(i, user, name, resource_id) ==
    /\ cache' = [cache EXCEPT ![i] = CanCache(i, user, name)]
    /\ last' = [Done("cannot_on", i, user, name, CannotResult(i, user, name, resource_id))
                    EXCEPT !.rid = resource_id]
    /\ UNCHANGED <<imageVars, orderVars, perms, rolePerms, userPerms, nextId, call>>

\* wrapper: the check is false -> HttpError(403, msg), msg being error_message
\* when one was given and the text naming the permissions otherwise; the check
\* is true -> the handler is called
GateOutcome(check, names, custom) ==
    IF check
    THEN [custom |-> custom, invoked |-> TRUE, code |-> 200, carried |-> {}]
    ELSE [custom |-> custom, invoked |-> FALSE, code |-> 403,
          carried |-> IF custom THEN {} ELSE Range(names)]

\* a wrapper calling the handler whatever the check answered
Gate_HandlerAlways(op, i, user, names, custom, checked) ==
    /\ cache' = [cache EXCEPT ![i] = checked.cache]
    /\ last' = [Done(op, i, user, NoOp.name, checked.ret) EXCEPT
                    !.list = Range(names),
                    !.gate = GateOutcome(TRUE, names, custom)]
    /\ UNCHANGED <<imageVars, orderVars, perms, rolePerms, userPerms, nextId, call>>

\* wrapper of the three decorators, checked being what its shield call gave
Gate(op, i, user, names, custom, checked) ==
    /\ cache' = [cache EXCEPT ![i] = checked.cache]
    /\ last' = [Done(op, i, user, NoOp.name, checked.ret) EXCEPT
                    !.list = Range(names),
                    !.gate = GateOutcome(checked.ret, names, custom)]
    /\ UNCHANGED <<imageVars, orderVars, perms, rolePerms, userPerms, nextId, call>>

\* require_permission(permission_name, error_message)
RequirePermission(i, user, name, custom) ==
    Gate("require_permission", i, user, <<name>>, custom,
         [ret |-> CanIn(cache[i], user, name), cache |-> CacheAfterCan(cache[i], user, name)])

\* require_any_permission(*permission_names, error_message)
RequireAnyPermission(i, user, names, custom) ==
    Gate("require_any_permission", i, user, names, custom, HasAnyIn(cache[i], user, names))

\* require_all_permissions(*permission_names, error_message)
RequireAllPermissions(i, user, names, custom) ==
    Gate("require_all_permissions", i, user, names, custom, HasAllIn(cache[i], user, names))

-----------------------------------------------------------------------------
(* Shield.can, one table query or cache access at a time. The queries run *)
(* outside any transaction, so other operations commit between them.      *)

\* the call returns ret
Return(ret) ==
    /\ call' = [call EXCEPT !.pc = "returned", !.ret = ret, !.perm = 0, !.has = FALSE]
    /\ last' = Done("can", call.inst, call.user, call.name, ret)

\* the call reads a table in the current epoch
Reading(c) == [c EXCEPT !.reads = @ \cup {c.epoch}]

\* can() is entered: the role test of lines 48-50
CanBegin(i, user, name) ==
    /\ ~InProgress
    /\ IF RoleOf(user) \in UniversalRoles
       THEN /\ call' = [Idle EXCEPT !.pc = "returned", !.inst = i, !.user = user,
                                    !.name = name, !.ret = TRUE, !.atomic = {TRUE}]
            /\ last' = Done("can", i, user, name, TRUE)
       ELSE /\ call' = [Idle EXCEPT !.pc = "override_permission", !.inst = i,
                                    !.user = user, !.name = name,
                                    !.atomic = {CanResult(i, user, name)}]
            /\ last' = last
    /\ UNCHANGED <<imageVars, orderVars, perms, rolePerms, userPerms, nextId, cache>>

\* _check_user_permission: Permission.objects.get(name=permission_name)
CanOverridePermission ==
    /\ call.pc = "override_permission"
    /\ IF PermissionGet(call.name) = {}
       THEN call' = [Reading(call) EXCEPT !.pc = "cache_lookup"]
       ELSE call' = [Reading(call) EXCEPT !.pc = "override_filter",
                        !.perm = (CHOOSE p \in PermissionGet(call.name) : TRUE).id]
    /\ UNCHANGED <<imageVars, orderVars, perms, rolePerms, userPerms, nextId, cache, last>>

\* _check_user_permission: UserPermission.objects.filter(user, permission).first()
CanOverrideFilter ==
    /\ call.pc = "override_filter"
    /\ LET rows == {up \in userPerms : up.user = call.user /\ up.perm = call.perm}
       IN IF rows # {}
          THEN /\ call' = [Reading(call) EXCEPT !.pc = "returned", !.perm = 0,
                              !.ret = (CHOOSE up \in rows : TRUE).granted]
               /\ last' = Done("can", call.inst, call.user, call.name,
                               (CHOOSE up \in rows : TRUE).granted)
          ELSE /\ call' = [Reading(call) EXCEPT !.pc = "cache_lookup", !.perm = 0]
               /\ last' = last
    /\ UNCHANGED <<imageVars, orderVars, perms, rolePerms, userPerms, nextId, cache>>

\* _check_role_permission: the cache lookup of lines 163-165
CanCacheLookup ==
    /\ call.pc = "cache_lookup"
    /\ LET cache_key == CacheKey(RoleOf(call.user), call.name)
       IN IF cache_key \in DOMAIN cache[call.inst]
          THEN Return(cache[call.inst][cache_key])
          ELSE /\ call' = [call EXCEPT !.pc = "role_permission"]
               /\ last' = last
    /\ UNCHANGED <<imageVars, orderVars, perms, rolePerms, userPerms, nextId, cache>>

\* _check_role_permission: Permission.objects.get(name=permission_name)
CanRolePermission ==
    /\ call.pc = "role_permission"
    /\ IF PermissionGet(call.name) = {}
       THEN /\ call' = [Reading(call) EXCEPT !.pc = "returned", !.ret = FALSE]
            /\ last' = Done("can", call.inst, call.user, call.name, FALSE)
       ELSE /\ call' = [Reading(call) EXCEPT !.pc = "role_exists",
                        !.perm = (CHOOSE p \in PermissionGet(call.name) : TRUE).id]
            /\ last' = last
    /\ UNCHANGED <<imageVars, orderVars, perms, rolePerms, userPerms, nextId, cache>>

\* _check_role_permission: RolePermission.objects.filter(role, permission).exists()
CanRoleExists ==
    /\ call.pc = "role_exists"
    /\ call' = [Reading(call) EXCEPT !.pc = "cache_store",
                    !.has = [role |-> RoleOf(call.user), perm |-> call.perm] \in rolePerms]
    /\ UNCHANGED <<imageVars, orderVars, perms, rolePerms, userPerms, nextId, cache, last>>

\* _check_role_permission: the cache write of line 176 and the return
CanCacheStore ==
    /\ call.pc = "cache_store"
    /\ LET cache_key == CacheKey(RoleOf(call.user), call.name)
       IN cache' = [cache EXCEPT ![call.inst] =
                        [k \in DOMAIN cache[call.inst] \cup {cache_key} |->
                            IF k = cache_key THEN call.has ELSE cache[call.inst][k]]]
    /\ Return(call.has)
    /\ UNCHANGED <<imageVars, orderVars, perms, rolePerms, userPerms, nextId>>

-----------------------------------------------------------------------------
(* seed_permissions *)

\* The rows Permission.objects.create makes for permissions_data, in order.
SeededPerms == {[id |-> nextId + k - 1, name |-> PermissionsData[k]] :
                    k \in 1..Len(PermissionsData)}

\* The rows RolePermission.objects.create makes for role_permissions.
SeededRolePerms ==
    {[role |-> r, perm |-> p.id] : <<r, p>> \in
        {<<r, p>> \in Roles \X SeededPerms : p.name \in RolePermissionsSeed(r)}}

\* The names whose Permission row has a UserPermission row pointing at it:
\* what the cascade of a reseed takes away (kept in last.list by Reseed)
OverriddenNames == {p.name : p \in {q \in perms : \E up \in userPerms : up.perm = q.id}}

\* A reseed whose Permission delete does not cascade to the overrides
Reseed_KeepOverrides ==
    /\ nextId + Len(PermissionsData) - 1 <= MaxId
    /\ perms' = SeededPerms
    /\ rolePerms' = SeededRolePerms
    /\ userPerms' = userPerms
    /\ nextId' = nextId + Len(PermissionsData)
    /\ last' = [AdminDone("reseed") EXCEPT !.list = OverriddenNames]
    /\ cache' = cache
    /\ UNCHANGED <<imageVars, orderVars>>
    /\ call' = IF InProgress
               THEN Mutated([call EXCEPT !.epoch = @ + 1,
                                 !.atomic = @ \cup
                                    {b \in BOOLEAN :
                                        \E i \in {call.inst}, u \in {call.user}, n \in {call.name} :
                                            b = CanResult(i, u, n)'}])
               ELSE call

\* Command.handle: one transaction that deletes every RolePermission and every
\* Permission (the UserPermission rows go with their permission, on_delete=CASCADE)
\* and creates the seed's rows. It touches no resolver.
Reseed ==
    /\ nextId + Len(PermissionsData) - 1 <= MaxId
    /\ perms' = SeededPerms
    /\ rolePerms' = SeededRolePerms
    /\ userPerms' = {}
    /\ nextId' = nextId + Len(PermissionsData)
    /\ last' = [AdminDone("reseed") EXCEPT !.list = OverriddenNames]
    /\ cache' = cache
    /\ UNCHANGED <<imageVars, orderVars>>
    /\ call' = IF InProgress
               THEN Mutated([call EXCEPT !.epoch = @ + 1,
                                 !.atomic = @ \cup
                                    {b \in BOOLEAN :
                                        \E i \in {call.inst}, u \in {call.user}, n \in {call.name} :
                                            b = CanResult(i, u, n)'}])
               ELSE call

-----------------------------------------------------------------------------
(* Administration of the catalog and of the role map *)

\* register(resource, action, description): a new Permission row, refused when
\* the name exists
RegisterPermission(name) ==
    /\ PermissionGet(name) = {}
    /\ nextId <= MaxId
    /\ perms' = perms \cup {[id |-> nextId, name |-> name]}
    /\ nextId' = nextId + 1
    /\ last' = AdminDone("register")
    /\ call' = Bystander
    /\ UNCHANGED <<imageVars, orderVars, rolePerms, userPerms, cache>>

\* grantToRole(role, permission): idempotent insert of an edge, followed by the
\* cache clear every change of the role map owes to every resolver
GrantToRole(role, name) ==
    /\ PermissionGet(name) # {}
    /\ LET permission == CHOOSE p \in PermissionGet(name) : TRUE
       IN rolePerms' = rolePerms \cup {[role |-> role, perm |-> permission.id]}
    /\ cache' = [i \in Instances |-> EmptyCache]
    /\ last' = AdminDone("grantToRole")
    /\ call' = Cleared(Mutated(Bystander))
    /\ UNCHANGED <<imageVars, orderVars, perms, userPerms, nextId>>

\* revokeFromRole(role, permission): idempotent removal of an edge, with the
\* same cache clear
RevokeFromRole(role, name) ==
    /\ PermissionGet(name) # {}
    /\ LET permission == CHOOSE p \in PermissionGet(name) : TRUE
       IN rolePerms' = rolePerms \ {[role |-> role, perm |-> permission.id]}
    /\ cache' = [i \in Instances |-> EmptyCache]
    /\ last' = AdminDone("revokeFromRole")
    /\ call' = Cleared(Mutated(Bystander))
    /\ UNCHANGED <<imageVars, orderVars, perms, userPerms, nextId>>

\* clearOverride(user, permission): the override row of the pair is removed;
\* overrides are in no cache, so none is touched
ClearOverride(i, user, name) ==
    /\ PermissionGet(name) # {}
    /\ userPerms' = userPerms \ OverrideRows(user, name)
    /\ last' = [Done("clearOverride", i, user, name, TRUE) EXCEPT
                    !.prev = CheckUserPermission(user, name)]
    /\ call' = Bystander
    /\ UNCHANGED <<imageVars, orderVars, perms, rolePerms, nextId, cache>>

-----------------------------------------------------------------------------
(* The order-status endpoint *)

\* OrderService.update_order_status left the timestamps of the stage alone
\* only while the order stays in it: every entry stamps
StampStage_EveryEntry(o, to, now) ==
    CASE to = WEIGHING_STAGE -> [o EXCEPT !.received_time = now]
      [] to = KITCHEN_STAGE -> [o EXCEPT !.kitchen_time = now]
      [] OTHER -> o

\* the stage timestamp of the destination status, set on the first entry only
StampStage(o, to, now) ==
    CASE to = WEIGHING_STAGE /\ o.received_time = 0 -> [o EXCEPT !.received_time = now]
      [] to = KITCHEN_STAGE /\ o.kitchen_time = 0 -> [o EXCEPT !.kitchen_time = now]
      [] OTHER -> o

\* OrderRepository.update_order: setattr for every key of update_data, then save
RepositoryUpdateOrder(o, update_data) ==
    [k \in DOMAIN o |-> IF k \in DOMAIN update_data THEN update_data[k] ELSE o[k]]

\* applyTransition asking only whether the edge exists
ApplyTransition_EdgeOnly(o, role, to, now) ==
    IF Edges(o.status, to) = {}
    THEN [ok |-> FALSE, kind |-> "InvalidTransition", order |-> o]
    ELSE [ok |-> TRUE, kind |-> "none",
          order |-> StampStage(RepositoryUpdateOrder(o, [status |-> to]), to, now)]

\* applyTransition writing the status it is given
ApplyTransition_Unchecked(o, role, to, now) ==
    [ok |-> TRUE, kind |-> "none",
     order |-> StampStage(RepositoryUpdateOrder(o, [status |-> to]), to, now)]

\* applyTransition(order, role, to): edge existence, then role membership,
\* then the new status and the stage timestamp
ApplyTransition(o, role, to, now) ==
    IF Edges(o.status, to) = {}
    THEN [ok |-> FALSE, kind |-> "InvalidTransition", order |-> o]
    ELSE IF ~CanTransition(role, o.status, to)
         THEN [ok |-> FALSE, kind |-> "PermissionDenied", order |-> o]
         ELSE [ok |-> TRUE, kind |-> "none",
               order |-> StampStage(RepositoryUpdateOrder(o, [status |-> to]), to, now)]

\* the slot of the other request
OtherRequest(q) == CHOOSE o \in Requests : o # q

\* what the answer of q records of a request racing with it
Race(q) ==
    LET o == reqs[OtherRequest(q)]
    IN IF o.from = reqs[q].from /\ o.to # reqs[q].to
       THEN IF o.pc = "checked" THEN "first"
            ELSE IF o.pc = "done" /\ o.race = "first" THEN "second" ELSE "none"
       ELSE "none"

\* update_order_status calling the service without asking can_transition
UpdateOrderStatusCheck_Unguarded(q, role, to) ==
    /\ reqs[q].pc # "checked"
    /\ reqs' = [reqs EXCEPT ![q] = [IdleRequest EXCEPT !.pc = "checked",
                        !.role = role, !.to = to, !.from = order.status]]
    /\ UNCHANGED <<imageVars, perms, rolePerms, userPerms, nextId, cache, last, call, order, clock>>

\* update_order_status, lines 135-141: the order is read and can_transition
\* is asked about the status it has; a refusal is answered 403
UpdateOrderStatusCheck(q, role, to) ==
    /\ reqs[q].pc # "checked"
    /\ IF ~CanTransition(role, order.status, to)
       THEN reqs' = [reqs EXCEPT ![q] = [IdleRequest EXCEPT !.pc = "done",
                        !.role = role, !.to = to, !.from = order.status,
                        !.was = order.status, !.code = 403, !.kind = "PermissionDenied"]]
       ELSE reqs' = [reqs EXCEPT ![q] = [IdleRequest EXCEPT !.pc = "checked",
                        !.role = role, !.to = to, !.from = order.status]]
    /\ UNCHANGED <<imageVars, perms, rolePerms, userPerms, nextId, cache, last, call, order, clock>>

\* update_order_status, lines 143-148: the service is called with the order's
\* id; it answers 200 or raises, which the router answers 400
UpdateOrderStatusApply(q) ==
    /\ reqs[q].pc = "checked"
    /\ clock < MaxClock
    /\ LET r == ApplyTransition(order, reqs[q].role, reqs[q].to, clock)
       IN /\ order' = r.order
          /\ clock' = IF r.ok THEN clock + 1 ELSE clock
          /\ reqs' = [reqs EXCEPT ![q] = [reqs[q] EXCEPT !.pc = "done",
                            !.was = order.status,
                            !.code = IF r.ok THEN 200 ELSE 400,
                            !.kind = r.kind,
                            !.race = Race(q)]]
    /\ UNCHANGED <<imageVars, perms, rolePerms, userPerms, nextId, cache, last, call>>

\* update_order: only admin, manager and sale may edit; the service writes
\* the details of the payload through the repository
UpdateOrder(role, notes) ==
    /\ role \in {ADMIN, MANAGER, SALE}
    /\ order' = RepositoryUpdateOrder(order, [notes |-> notes])
    /\ UNCHANGED <<imageVars, perms, rolePerms, userPerms, nextId, cache, last, call, clock, reqs>>

\* the update_data a caller of the repository may hand it
UpdateData ==
    {[notes |-> n] : n \in Notes} \cup {[status |-> st] : st \in OrderStatus}

\* OrderRepository.update_order called on the order
RepositoryUpdate(update_data) ==
    /\ order' = RepositoryUpdateOrder(order, update_data)
    /\ UNCHANGED <<imageVars, perms, rolePerms, userPerms, nextId, cache, last, call, clock, reqs>>

\* Requests on one order, interleaved between the router's check and the
\* service's call
NextOrders ==
    \/ \E q \in Requests, role \in Roles, to \in OrderStatus : UpdateOrderStatusCheck(q, role, to)
    \/ \E q \in Requests : UpdateOrderStatusApply(q)
    \/ \E role \in Roles, n \in Notes : UpdateOrder(role, n)

SpecOrders == Init /\ [][NextOrders]_vars

\* One request at a time, and the repository's update called directly
NextRepository ==
    \/ \E role \in Roles, to \in OrderStatus : UpdateOrderStatusCheck("q1", role, to)
    \/ UpdateOrderStatusApply("q1")
    \/ \E role \in Roles, n \in Notes : UpdateOrder(role, n)
    \/ \E d \in UpdateData : RepositoryUpdate(d)

SpecRepository == Init /\ [][NextRepository]_vars

-----------------------------------------------------------------------------
(* Order images: upload, the cleanup command, the delete endpoint *)

\* everything but the images
restVars == <<perms, rolePerms, userPerms, nextId, cache, last, call, order, clock, reqs>>

\* upload_order_image: OrderImage.objects.create with the uploaded file,
\* created on day
UploadOrderImage(o, day) ==
    /\ nextImage <= MaxImages
    /\ images' = images \cup {[id |-> nextImage, order |-> o, created_at |-> day]}
    /\ files' = files \cup {nextImage}
    /\ nextImage' = nextImage + 1
    /\ resp' = [NoResponse EXCEPT !.op = "upload", !.order = o, !.image = nextImage,
                                  !.found = TRUE, !.code = 201]
    /\ UNCHANGED restVars

\* os.path.exists(image.image.path) is false: the file of a record has left
\* the disk
FileLost(id) ==
    /\ id \in files
    /\ files' = files \ {id}
    /\ resp' = [NoResponse EXCEPT !.op = "file_lost", !.image = id]
    /\ UNCHANGED <<images, nextImage>>
    /\ UNCHANGED restVars

\* OrderImage.objects.filter(created_at__lt=cutoff_date), cutoff_date being
\* timezone.now() - timedelta(days=days)
OldImages(days) == {im \in images : im.created_at < Today - days}

\* handle deleting whatever --dry-run says
CleanupOldImages_IgnoreDryRun(days, dry_run, failing) ==
    /\ failing \subseteq {im.id : im \in OldImages(days)} \cap files
    /\ images' = {im \in images : im \notin OldImages(days) \/ im.id \in failing}
    /\ files' = {f \in files : f \notin {im.id : im \in OldImages(days)} \/ f \in failing}
    /\ resp' = [NoResponse EXCEPT !.op = "cleanup", !.days = days, !.dry_run = dry_run,
                                  !.considered = {im.id : im \in OldImages(days)}]
    /\ UNCHANGED nextImage
    /\ UNCHANGED restVars

\* Command.handle of cleanup_old_images. failing: the old images whose file
\* the storage refuses to delete; the exception skips their record too.
CleanupOldImages(days, dry_run, failing) ==
    /\ failing \subseteq {im.id : im \in OldImages(days)} \cap files
    /\ IF dry_run
       THEN /\ failing = {}
            /\ UNCHANGED <<images, files>>
       ELSE /\ images' = {im \in images : im \notin OldImages(days) \/ im.id \in failing}
            /\ files' = {f \in files :
                            f \notin {im.id : im \in OldImages(days)} \/ f \in failing}
    /\ resp' = [NoResponse EXCEPT !.op = "cleanup", !.days = days, !.dry_run = dry_run,
                                  !.considered = {im.id : im \in OldImages(days)}]
    /\ UNCHANGED nextImage
    /\ UNCHANGED restVars

\* the positional parameters of broadcast_order_image_deleted(order_id, image_id)
BroadcastOrderImageDeletedParameters == 2

\* broadcast_order_image_deleted called with nargs arguments: TypeError unless
\* they are as many as its parameters
BroadcastRaises(nargs) == nargs # BroadcastOrderImageDeletedParameters

\* delete_order_image. file_fails: image.image.delete raises.
DeleteOrderImage(o, id, file_fails) ==
    LET found == {im \in images : im.id = id /\ im.order = o}
        answer(code) == [NoResponse EXCEPT !.op = "delete_image", !.order = o, !.image = id,
                                           !.found = found # {}, !.code = code]
    IN /\ IF found = {}
          THEN /\ ~file_fails
               /\ resp' = answer(404)
               /\ UNCHANGED <<images, files>>
          ELSE IF file_fails
               THEN /\ resp' = answer(400)
                    /\ UNCHANGED <<images, files>>
               ELSE /\ files' = files \ {id}
                    /\ images' = images \ found
                    /\ resp' = IF BroadcastRaises(3) THEN answer(400) ELSE answer(204)
       /\ UNCHANGED nextImage
       /\ UNCHANGED restVars

NextImages ==
    \/ \E o \in Orders, day \in Days : UploadOrderImage(o, day)
    \/ \E id \in 1..MaxImages : FileLost(id)
    \/ \E days \in 0..Today, dry_run \in BOOLEAN, failing \in SUBSET (1..MaxImages) :
            CleanupOldImages(days, dry_run, failing)
    \/ \E o \in Orders, id \in 1..MaxImages, file_fails \in BOOLEAN :
            DeleteOrderImage(o, id, file_fails)

SpecImages == Init /\ [][NextImages]_vars

-----------------------------------------------------------------------------
(* One server process: every handler runs to its end before the next starts *)

Next ==
    \/ \E u \in Users, n \in Names : Can("r1", u, n)
    \/ \E u \in Users : GetUserPermissions("r1", u)
    \/ \E u \in Users, n \in Names : Grant("r1", u, n)
    \/ \E u \in Users, n \in Names : Revoke("r1", u, n)
    \/ ClearCache("r1")
    \/ Reseed
    \/ \E n \in ExtraNames : RegisterPermission(n)
    \/ \E r \in OrdinaryRoles, n \in Names : GrantToRole(r, n)
    \/ \E r \in OrdinaryRoles, n \in Names : RevokeFromRole(r, n)

Spec == Init /\ [][Next]_vars

-----------------------------------------------------------------------------
(* Two server processes: the same tables, a resolver and a cache each *)

NextReplicas ==
    \/ \E i \in Instances, u \in Users, n \in Names : Can(i, u, n)
    \/ \E i \in Instances, u \in Users, n \in Names : Grant(i, u, n)
    \/ \E i \in Instances, u \in Users, n \in Names : Revoke(i, u, n)
    \/ \E i \in Instances : ClearCache(i)
    \/ Reseed
    \/ \E n \in ExtraNames : RegisterPermission(n)
    \/ \E r \in OrdinaryRoles, n \in Names : GrantToRole(r, n)
    \/ \E r \in OrdinaryRoles, n \in Names : RevokeFromRole(r, n)

SpecReplicas == Init /\ [][NextReplicas]_vars

-----------------------------------------------------------------------------
(* One server process whose can() calls are interleaved, query by query, *)
(* with the operations of other processes on the tables                  *)

\* the users of the interleaved calls: one universal, one ordinary
ConcurrentUsers == {"u_manager", "u_sale"}

NextConcurrent ==
    \/ \E u \in ConcurrentUsers, n \in Names : CanBegin("r1", u, n)
    \/ CanOverridePermission
    \/ CanOverrideFilter
    \/ CanCacheLookup
    \/ CanRolePermission
    \/ CanRoleExists
    \/ CanCacheStore
    \/ \E u \in ConcurrentUsers, n \in Names : Grant("r1", u, n)
    \/ \E u \in ConcurrentUsers, n \in Names : Revoke("r1", u, n)
    \/ ClearCache("r1")
    \/ Reseed
    \/ \E n \in ExtraNames : RegisterPermission(n)
    \/ \E r \in OrdinaryRoles, n \in Names : GrantToRole(r, n)
    \/ \E r \in OrdinaryRoles, n \in Names : RevokeFromRole(r, n)

SpecConcurrent == Init /\ [][NextConcurrent]_vars

-----------------------------------------------------------------------------
(* The same process with nothing but the resolver and the seed command at *)
(* work on the tables                                                     *)

NextSeedOnly ==
    \/ \E u \in ConcurrentUsers, n \in Names : CanBegin("r1", u, n)
    \/ CanOverridePermission
    \/ CanOverrideFilter
    \/ CanCacheLookup
    \/ CanRolePermission
    \/ CanRoleExists
    \/ CanCacheStore
    \/ \E u \in ConcurrentUsers : GetUserPermissions("r1", u)
    \/ \E u \in ConcurrentUsers, n \in Names : Grant("r1", u, n)
    \/ \E u \in ConcurrentUsers, n \in Names : Revoke("r1", u, n)
    \/ ClearCache("r1")
    \/ Reseed

SpecSeedOnly == Init /\ [][NextSeedOnly]_vars

-----------------------------------------------------------------------------
(* Requests through the permission gates of one server process, between *)
(* changes of the overrides and reseeds                                 *)

\* the users of the gated requests: one universal, one ordinary
GateUsers == {"u_manager", "u_sale"}

NextGates ==
    \/ \E u \in GateUsers, names \in NameLists : HasAny("r1", u, names)
    \/ \E u \in GateUsers, names \in NameLists : HasAll("r1", u, names)
    \/ \E u \in GateUsers, n \in Names, custom \in BOOLEAN :
            RequirePermission("r1", u, n, custom)
    \/ \E u \in GateUsers, names \in NameLists, custom \in BOOLEAN :
            RequireAnyPermission("r1", u, names, custom)
    \/ \E u \in GateUsers, names \in NameLists, custom \in BOOLEAN :
            RequireAllPermissions("r1", u, names, custom)
    \/ \E u \in GateUsers, n \in Names : Grant("r1", u, n)
    \/ \E u \in GateUsers, n \in Names : Revoke("r1", u, n)
    \/ ClearCache("r1")
    \/ Reseed

SpecGates == Init /\ [][NextGates]_vars

-----------------------------------------------------------------------------
(* The queries of one resolver between every change of the tables: the *)
(* overrides, the reseed and the administration of catalog and role map *)

NextQueries ==
    \/ \E u \in GateUsers, n \in Names : Can("r1", u, n)
    \/ \E u \in GateUsers, names \in NameLists : HasAny("r1", u, names)
    \/ \E u \in GateUsers, names \in NameLists : HasAll("r1", u, names)
    \/ \E u \in GateUsers : GetUserPermissions("r1", u)
    \/ \E u \in GateUsers, n \in Names : Grant("r1", u, n)
    \/ \E u \in GateUsers, n \in Names : Revoke("r1", u, n)
    \/ \E u \in GateUsers, n \in Names : ClearOverride("r1", u, n)
    \/ ClearCache("r1")
    \/ Reseed
    \/ \E n \in ExtraNames : RegisterPermission(n)
    \/ \E r \in OrdinaryRoles, n \in Names : GrantToRole(r, n)
    \/ \E r \in OrdinaryRoles, n \in Names : RevokeFromRole(r, n)

SpecQueries == Init /\ [][NextQueries]_vars

\* Two users of one role
PeerUsers == {"u_sale", "u_sale2"}

\* Overrides and queries of two users of one role on one resolver
NextPeers ==
    \/ \E u \in PeerUsers, n \in Names : Can("r1", u, n)
    \/ \E u \in PeerUsers : GetUserPermissions("r1", u)
    \/ \E u \in PeerUsers, n \in Names : Grant("r1", u, n)
    \/ \E u \in PeerUsers, n \in Names : Revoke("r1", u, n)
    \/ ClearCache("r1")
    \/ Reseed
    \/ \E n \in ExtraNames : RegisterPermission(n)

SpecPeers == Init /\ [][NextPeers]_vars

\* The five queries of one resolver, with the operations that change what
\* they read
NextLookups ==
    \/ \E u \in GateUsers, n \in Names, r \in ResourceIds : CanOn("r1", u, n, r)
    \/ \E u \in GateUsers, n \in Names, r \in ResourceIds : CannotOn("r1", u, n, r)
    \/ \E u \in GateUsers, names \in NameLists : HasAny("r1", u, names)
    \/ \E u \in GateUsers, names \in NameLists : HasAll("r1", u, names)
    \/ \E u \in GateUsers : GetUserPermissions("r1", u)
    \/ \E u \in GateUsers, n \in Names : Grant("r1", u, n)
    \/ \E u \in GateUsers, n \in Names : Revoke("r1", u, n)
    \/ ClearCache("r1")
    \/ Reseed

SpecLookups == Init /\ [][NextLookups]_vars

TypeOK ==
    /\ \A p \in perms : p.id \in 1..(nextId - 1) /\ p.name \in Names
    /\ \A p, q \in perms : p.name = q.name => p = q
    /\ \A rp \in rolePerms : \E p \in perms : p.id = rp.perm
    /\ \A up \in userPerms : \E p \in perms : p.id = up.perm
    /\ \A up, vp \in userPerms : (up.user = vp.user /\ up.perm = vp.perm) => up = vp

-----------------------------------------------------------------------------
(* What the claims speak of *)

\* hasRolePermission(role, name): the role map holds the edge now
HasRolePermission(role, name) ==
    \E p \in perms : p.name = name /\ [role |-> role, perm |-> p.id] \in rolePerms

Ordinary(u) == RoleOf(u) \notin {ADMIN, MANAGER}

-----------------------------------------------------------------------------
(* C1 *)

-----------------------------------------------------------------------------
(* C2 *)

\* C2: for every actor that is neither admin nor manager, whenever an override
\* row exists for (actor, name), can(actor, name) is that row's granted value,
\* whatever the role map and the role cache hold for (actor.role, name).
C2_OverrideOutranksRole ==
    \A u \in Users, n \in Names : Ordinary(u) =>
        \A up \in OverrideRows(u, n) :
            /\ CanResult("r1", u, n) = up.granted
            /\ (last.op = "can" /\ last.user = u /\ last.name = n) => last.ret = up.granted

\* a can() answered false from a revoke override while the role map has the
\* edge and the cache holds true for the key
C2_Witness ==
    /\ last.op = "can"
    /\ Ordinary(last.user)
    /\ \E up \in OverrideRows(last.user, last.name) : ~up.granted
    /\ HasRolePermission(RoleOf(last.user), last.name)
    /\ CacheKey(RoleOf(last.user), last.name) \in DOMAIN cache["r1"]
    /\ cache["r1"][CacheKey(RoleOf(last.user), last.name)]
    /\ ~last.ret

-----------------------------------------------------------------------------
(* C3 *)

\* C3: in every reachable state, for every actor that is neither admin nor
\* manager and has no override row for name, can(actor, name) equals whether
\* the role map now holds the edge (actor.role, name).
C3_RoleDefaultIsCurrentMap ==
    \A u \in Users, n \in Names :
        (Ordinary(u) /\ OverrideRows(u, n) = {}) =>
            CanResult("r1", u, n) = HasRolePermission(RoleOf(u), n)

-----------------------------------------------------------------------------
(* C4 *)

\* C4: for every actor and every permission p of the catalog, p is in
\* get_user_permissions(actor) exactly when can(actor, p) is true in the same
\* state.
C4_EffectivePermissionsAgreeWithCan ==
    \A u \in Users, p \in CatalogNames :
        (p \in GetUserPermissionsResult(u)) <=> CanResult("r1", u, p)

-----------------------------------------------------------------------------
(* C5 *)

\* C5 as claimed: for every actor and every permission name, right after
\* grant(actor, name) a can(actor, name) on the same resolver returns true.
C5_NextCanAfterGrant ==
    last.op = "grant" => CanResult(last.inst, last.user, last.name)

\* C5 as amended: for every actor and every permission name of the catalog,
\* right after grant(actor, name) a can(actor, name) on the same resolver
\* returns true, whatever it returned before the grant.
C5_NextCanAfterGrantInCatalog ==
    (last.op = "grant" /\ last.name \in CatalogNames) =>
        /\ last.ret
        /\ CanResult(last.inst, last.user, last.name)

\* a grant has just given an ordinary actor a permission that its role lacks
\* and that the cache, if it holds the key, denies
C5_Witness ==
    /\ last.op = "grant"
    /\ last.ret
    /\ Ordinary(last.user)
    /\ ~HasRolePermission(RoleOf(last.user), last.name)
    /\ CacheKey(RoleOf(last.user), last.name) \in DOMAIN cache[last.inst]
    /\ ~cache[last.inst][CacheKey(RoleOf(last.user), last.name)]

-----------------------------------------------------------------------------
(* C6 *)

\* C6 as claimed: for every actor and every permission name, right after
\* revoke(actor, name) a can(actor, name) on the same resolver returns false.
C6_NextCanAfterRevoke ==
    last.op = "revoke" => ~CanResult(last.inst, last.user, last.name)

\* C6 as amended: for every permission name of the catalog, right after
\* revoke(actor, name) a can(actor, name) on the same resolver returns false
\* when the actor is neither admin nor manager, even if its role has the
\* permission, and returns true when the actor is admin or manager.
C6_NextCanAfterRevokeOrdinary ==
    (last.op = "revoke" /\ last.name \in CatalogNames) =>
        /\ last.ret
        /\ CanResult(last.inst, last.user, last.name)
                <=> RoleOf(last.user) \in {ADMIN, MANAGER}

\* a revoke has just taken from an ordinary actor a permission its role has
C6_Witness ==
    /\ last.op = "revoke"
    /\ last.ret
    /\ Ordinary(last.user)
    /\ HasRolePermission(RoleOf(last.user), last.name)

-----------------------------------------------------------------------------
(* C7 *)

\* C7: for every actor that is neither admin nor manager, can(actor, name) is
\* false whenever name is not in the catalog, in every reachable state.
C7_AbsentNameFailsClosed ==
    \A u \in Users, n \in Names :
        (Ordinary(u) /\ n \notin CatalogNames) => ~CanResult("r1", u, n)

-----------------------------------------------------------------------------
(* C8 *)

\* C8: once a reseed has completed, the resolver holds no cache entry that was
\* computed before it: right after the reseed the role-permission cache is
\* empty.
C8_ReseedClearsCache ==
    last.op = "reseed" => cache["r1"] = EmptyCache
-----------------------------------------------------------------------------
(* C9 *)

\* C9: a can() call during which one reseed, and nothing else, was committed
\* returns the answer an uninterrupted can() gives on the tables as they were
\* before that reseed or the answer it gives on the tables as they are after
\* it; its table reads taken on the two sides of the commit never combine
\* into a third answer.
C9_AnswerIsPreOrPost ==
    (call.pc = "returned" /\ call.epoch = 1 /\ ~call.others) =>
        call.ret \in call.atomic

-----------------------------------------------------------------------------
(* C10 *)

\* C10: with two resolver instances on the same tables, right after a grant
\* or revoke that one instance performed (it returned true), a can() for that
\* (actor, name) on the other instance gives the answer the performing
\* instance gives, and for an actor that is neither admin nor manager that
\* answer is the value just written, whatever the other instance's cache holds.
C10_OtherReplicaSeesOverride ==
    (last.op \in {"grant", "revoke"} /\ last.ret) =>
        \A j \in Instances \ {last.inst} :
            /\ CanResult(j, last.user, last.name)
                    = CanResult(last.inst, last.user, last.name)
            /\ Ordinary(last.user) =>
                    (CanResult(j, last.user, last.name) <=> last.op = "grant")

\* one instance has just revoked what the other instance's cache grants
C10_Witness ==
    /\ last.op = "revoke"
    /\ last.ret
    /\ last.inst = "r1"
    /\ Ordinary(last.user)
    /\ CacheKey(RoleOf(last.user), last.name) \in DOMAIN cache["r2"]
    /\ cache["r2"][CacheKey(RoleOf(last.user), last.name)]
    /\ CacheKey(RoleOf(last.user), last.name) \notin DOMAIN cache["r1"]

-----------------------------------------------------------------------------
(* C11 *)

-----------------------------------------------------------------------------
(* C12 *)

\* C12: can_transition answers as the table says: with
\* the edge weighing -> kitchen for {weighing, admin, manager}, it is false
\* for sale and true for weighing; and whenever the status of the order
\* changes, the step is the status endpoint serving a request whose role may
\* take the edge from the status the order had to the status it asked for.
C12_StatusChangesOnlyByLegalEdge ==
    [][/\ ~CanTransition(SALE, WEIGHING_STAGE, KITCHEN_STAGE)
       /\ CanTransition(WEIGHING, WEIGHING_STAGE, KITCHEN_STAGE)
       /\ order'.status # order.status =>
            \E q \in Requests :
                /\ reqs[q].pc = "checked"
                /\ reqs'[q].pc = "done"
                /\ reqs'[q].code = 200
                /\ reqs[q].to = order'.status
                /\ \E e \in Transitions :
                        /\ e.from = order.status
                        /\ e.to = order'.status
                        /\ reqs[q].role \in e.roles]_vars

\* a request was served after the order had left the status the router read
C12_Witness ==
    \E q \in Requests :
        /\ reqs[q].pc = "done"
        /\ reqs[q].code = 200
        /\ reqs[q].was # reqs[q].from
        /\ order.status = reqs[q].to

-----------------------------------------------------------------------------
(* C13 *)

\* C13: every refused status request is answered with its reason: the kind is
\* InvalidTransition when the table has no edge from the order's status to
\* the requested one, whatever the role, and PermissionDenied when the edge
\* exists and the role is not among its roles.
C13_DenialKindsDistinct ==
    \A q \in Requests :
        (reqs[q].pc = "done" /\ reqs[q].code # 200) =>
            IF Edges(reqs[q].was, reqs[q].to) = {}
            THEN reqs[q].kind = "InvalidTransition"
            ELSE reqs[q].kind = "PermissionDenied"

-----------------------------------------------------------------------------
(* C14 *)

\* C14: of two status requests on the order that read the same status and ask
\* for different targets, the one served first succeeds and the one served
\* second is refused.
C14_OneOfTwoRacingSucceeds ==
    \A q \in Requests :
        (reqs[q].pc = "done" /\ reqs[q].race = "second") =>
            /\ reqs[OtherRequest(q)].code = 200
            /\ reqs[q].code # 200

-----------------------------------------------------------------------------
(* C15 *)

\* C15: received_time is set when the order enters weighing and kitchen_time
\* when it enters kitchen, and a timestamp that is set never changes again,
\* whatever transitions follow, a re-entry of the stage included.
C15_StageTimestampSetOnce ==
    [][/\ order.received_time # 0 => order'.received_time = order.received_time
       /\ order.kitchen_time # 0 => order'.kitchen_time = order.kitchen_time
       /\ order'.status = WEIGHING_STAGE => order'.received_time # 0
       /\ order'.status = KITCHEN_STAGE => order'.kitchen_time # 0]_vars

\* the order is back in weighing after the kitchen, at a later time, with the
\* received_time of its first entry
C15_Witness ==
    /\ order.status = WEIGHING_STAGE
    /\ order.received_time # 0
    /\ order.kitchen_time > order.received_time
    /\ clock > order.kitchen_time + 1

-----------------------------------------------------------------------------
(* C16 *)

\* C16: whenever the status of the order changes, the step is the status
\* endpoint answering 200 to a request that passed its check; the general
\* update endpoint and the repository's update leave the status as it was.
C16_StatusOnlyThroughGuard ==
    [][order'.status # order.status =>
            \E q \in Requests :
                /\ reqs[q].pc = "checked"
                /\ reqs'[q].pc = "done"
                /\ reqs'[q].code = 200]_vars

-----------------------------------------------------------------------------
(* C17 *)

\* C17: once the order is completed or cancelled its status never changes,
\* and no status request served while it is completed or cancelled is
\* answered 200, whatever the role.
C17_TerminalStatusesStay ==
    [][/\ order.status \in TerminalStatuses => order'.status = order.status
       /\ \A q \in Requests :
            (reqs'[q].pc = "done" /\ reqs'[q].was \in TerminalStatuses) =>
                reqs'[q].code # 200]_vars

\* an admin or manager request that passed the check before the order ended
\* was refused by the service after it
C17_Witness ==
    \E q \in Requests :
        /\ reqs[q].pc = "done"
        /\ reqs[q].role \in {ADMIN, MANAGER}
        /\ reqs[q].from \notin TerminalStatuses
        /\ reqs[q].was \in TerminalStatuses
        /\ reqs[q].code = 400
        /\ order.status = reqs[q].was

-----------------------------------------------------------------------------
(* C18 *)

GateOps == {"require_permission", "require_any_permission", "require_all_permissions"}

\* what the check of the gate that answered last is, asked again of can()
GateCheck ==
    CASE last.op = "require_any_permission" ->
            \E n \in last.list : CanResult(last.inst, last.user, n)
      [] OTHER ->
            \A n \in last.list : CanResult(last.inst, last.user, n)

\* C18: a gate calls the wrapped handler exactly when its check (can, has_any
\* or has_all for the requesting user) is true; when the check is false the
\* handler is not called and the answer is 403.
C18_HandlerOnlyAfterCheck ==
    last.op \in GateOps =>
        /\ last.ret = GateCheck
        /\ last.gate.invoked <=> last.ret
        /\ ~last.ret => last.gate.code = 403

\* a gate for several permissions refused an ordinary user and did not call
\* the handler
C18_Witness ==
    /\ last.op = "require_all_permissions"
    /\ Ordinary(last.user)
    /\ Cardinality(last.list) = 2
    /\ \E n \in last.list : CanResult(last.inst, last.user, n)
    /\ ~last.ret
    /\ ~last.gate.invoked

-----------------------------------------------------------------------------
(* C19 *)

\* C19: every 403 of a gate holds the permission names the gate checked,
\* with and without an error_message of its own.
C19_DenialCarriesNames ==
    (last.op \in GateOps /\ last.gate.code = 403) =>
        last.gate.carried = last.list

-----------------------------------------------------------------------------
(* C20 *)

\* C20: has_any(actor, names) returns true exactly when can(actor, n) is true
\* for at least one n of names, and so false for the empty list.
C20_HasAnyIsSomeCan ==
    last.op = "has_any" =>
        (last.ret <=> \E n \in last.list : CanResult(last.inst, last.user, n))

\* has_any was true for an ordinary user by a name that can() grants while
\* another name of the list is refused
C20_Witness ==
    /\ last.op = "has_any"
    /\ Ordinary(last.user)
    /\ last.ret
    /\ \E n \in last.list : ~CanResult(last.inst, last.user, n)

-----------------------------------------------------------------------------
(* C21 *)

\* C21: has_all(actor, names) returns true exactly when can(actor, n) is true
\* for every n of names, and so true for the empty list; and it returns
\* false for an actor that is neither admin nor manager whenever a name of
\* the list is not in the catalog.
C21_HasAllIsEveryCan ==
    last.op = "has_all" =>
        /\ last.ret <=> \A n \in last.list : CanResult(last.inst, last.user, n)
        /\ (Ordinary(last.user) /\ \E n \in last.list : n \notin CatalogNames)
                => ~last.ret

-----------------------------------------------------------------------------
(* C22 *)

\* C22: for a user that is neither admin nor manager, right after the
\* override row of (user, p), written by a grant or by a revoke, is removed,
\* can(user, p) equals whether the role map holds the edge (user.role, p).
C22_ClearOverrideRevertsToRoleMap ==
    (last.op = "clearOverride" /\ last.prev # None /\ Ordinary(last.user)) =>
        /\ OverrideRows(last.user, last.name) = {}
        /\ CanResult(last.inst, last.user, last.name)
                = HasRolePermission(RoleOf(last.user), last.name)

-----------------------------------------------------------------------------
(* C23 *)

\* C23: a run of cleanup_old_images with --dry-run leaves the OrderImage
\* records and the image files as they were, and any run considers, and
\* deletes, only images created before the cutoff now - days.
C23_DryRunDeletesNothing ==
    [][resp'.op = "cleanup" =>
            /\ resp'.dry_run => (images' = images /\ files' = files)
            /\ resp'.considered = {im.id : im \in {jm \in images :
                                        jm.created_at + resp'.days < Today}}
            /\ \A im \in images \ images' : im.id \in resp'.considered
            /\ \A f \in files \ files' : f \in resp'.considered]_vars

\* a dry run has looked at an old image, next to a recent one, and the old
\* image and its file are still there
C23_Witness ==
    /\ resp.op = "cleanup"
    /\ resp.dry_run
    /\ \E im \in images : im.id \in resp.considered /\ im.id \in files
    /\ \E im \in images : im.id \notin resp.considered

-----------------------------------------------------------------------------
(* C30 *)

\* C30: delete_order_image answers 204 and has removed the record whenever
\* the image is in the order, and answers 404 or 400 only when the record
\* is still there.
C30_DeleteOutcomeMatchesState ==
    resp.op = "delete_image" =>
        /\ (resp.found /\ resp.code = 204) =>
                ~\E im \in images : im.id = resp.image
        /\ resp.code \in {404, 400} =>
                (resp.found => \E im \in images : im.id = resp.image)

-----------------------------------------------------------------------------
(* C24 *)

\* C24: when the role map was changed and clear_cache() then returned while a
\* can() call had read the role map and not yet written the cache, the cache
\* holds no entry for the key of that call once the call has returned: the
\* value it read before the change is not in the cache after the clear.
C24_NoStaleEntryAfterClear ==
    (call.pc = "returned" /\ call.seq = "cleared") =>
        CacheKey(RoleOf(call.user), call.name) \notin DOMAIN cache[call.inst]

-----------------------------------------------------------------------------
(* C25 *)

\* C25: a reseed removes every user override: right after any reseed the
\* override store is empty, no user has an override for any name, and the
\* effective permissions of an ordinary user are the names the role map gives
\* to the role, whatever was granted or revoked before.
C25_ReseedRemovesOverrides ==
    last.op = "reseed" =>
        /\ userPerms = {}
        /\ \A u \in Users, n \in Names : CheckUserPermission(u, n) = None
        /\ \A u \in Users : Ordinary(u) =>
              GetUserPermissionsResult(u) =
                  {n \in CatalogNames : HasRolePermission(RoleOf(u), n)}

\* A reseed has just deleted a Permission row that an override pointed at
C25_Witness ==
    /\ last.op = "reseed"
    /\ last.list # {}
    /\ userPerms = {}

-----------------------------------------------------------------------------
(* C26 *)

\* C26: grant and revoke return true exactly when the name is in the catalog,
\* and a call with a name that is not in the catalog returns false and leaves
\* the catalog, the role map, the override store and the cache as they were.
C26_UnknownNameIsRefused ==
    [][last'.op \in {"grant", "revoke"} =>
          /\ last'.ret <=> (last'.name \in CatalogNames)
          /\ ~last'.ret => UNCHANGED <<perms, rolePerms, userPerms, cache>>]_vars

\* A grant or revoke of a name the non-empty catalog does not hold has answered,
\* with an override of another name in the store
C26_Witness ==
    /\ last.op \in {"grant", "revoke"}
    /\ ~last.ret
    /\ last.name \notin CatalogNames
    /\ CatalogNames # {}
    /\ userPerms # {}

-----------------------------------------------------------------------------
(* C27 *)

-----------------------------------------------------------------------------
(* C28 *)

QueryOps == {"can_on", "cannot_on", "has_any", "has_all", "perms"}

\* The names a query was asked about
AskedNames(l) == IF l.op \in {"can_on", "cannot_on"} THEN {l.name}
                 ELSE IF l.op \in {"has_any", "has_all"} THEN l.list
                 ELSE {}

\* C28: can, cannot, has_any, has_all and get_user_permissions leave the
\* catalog, the role map and the override store as they were; of the cache
\* they keep every entry, and every entry they add has the key of the actor's
\* role and of a name they were asked about that is in the catalog.
C28_QueriesOnlyAddCacheEntries ==
    [][last'.op \in QueryOps =>
          /\ UNCHANGED <<perms, rolePerms, userPerms>>
          /\ cache'["r2"] = cache["r2"]
          /\ \A k \in DOMAIN cache["r1"] :
                k \in DOMAIN cache'["r1"] /\ cache'["r1"][k] = cache["r1"][k]
          /\ \A k \in DOMAIN cache'["r1"] \ DOMAIN cache["r1"] :
                \E n \in AskedNames(last') \cap CatalogNames :
                    k = CacheKey(RoleOf(last'.user), n)]_vars

\* has_any was asked about a name of the catalog and a name that is not in it:
\* the cache holds the key of the first and not the key of the second
C28_Witness ==
    /\ last.op = "has_any"
    /\ Ordinary(last.user)
    /\ userPerms # {}
    /\ \E n \in last.list \cap CatalogNames :
          CacheKey(RoleOf(last.user), n) \in DOMAIN cache["r1"]
    /\ \E n \in last.list \ CatalogNames :
          CacheKey(RoleOf(last.user), n) \notin DOMAIN cache["r1"]

-----------------------------------------------------------------------------
(* C29 *)

====
